---- MODULE Spec2Model ----
(***************************************************************************)
(* Model of winiot-backend.py: a Flask service that drives the Twinkle     *)
(* Tray executable (monitor power / brightness) through subprocess and the *)
(* default audio endpoint's mute flag through pycaw / COM.                 *)
(*                                                                         *)
(* Python values are modelled as tagged records.  Strings that the code    *)
(* parses (the brightness selector, the child's stdout / stderr) are       *)
(* sequences of one-character strings; strings that the code only builds   *)
(* (messages, argument-list items) are TLA+ strings.  The Chinese message  *)
(* literals of the source are rendered in ASCII.                           *)
(***************************************************************************)
EXTENDS Integers, Sequences, FiniteSets, TLC

\* ---------------------------------------------------------------- bounds
MaxLen == 3
MaxOut == 2
MaxMonitor == 2

\* ------------------------------------------------------- Python values
None == [ty |-> "NoneType"]
PyInt(n) == [ty |-> "int", i |-> n]
PyStr(cs) == [ty |-> "str", cs |-> cs]
PyList(l) == [ty |-> "list", l |-> l]
PyBool(b) == [ty |-> "bool", b |-> b]
Text(s) == [ty |-> "text", s |-> s]

\* truth value of a message-or-None, as `if error:` and `x or y` take it
Truthy(x) == x.ty = "text" /\ x.s /= ""

Digits == {"0", "1", "2", "3", "4", "5", "6", "7", "8", "9"}
Whitespace == {" "}
SelectorChars == {"0", "1", " ", "-", "+", "_", "a", "l", "A", "L"}

RECURSIVE SeqsUpTo(_, _)
SeqsUpTo(S, n) ==
    IF n = 0 THEN {<<>>}
    ELSE LET shorter == SeqsUpTo(S, n - 1)
         IN  shorter \cup {Append(s, c) : s \in {x \in shorter : Len(x) = n - 1}, c \in S}

RECURSIVE Join(_)
Join(cs) == IF cs = <<>> THEN "" ELSE Head(cs) \o Join(Tail(cs))

\* str.strip(): drop leading and trailing whitespace
RECURSIVE LStrip(_)
LStrip(cs) == IF cs /= <<>> /\ Head(cs) \in Whitespace THEN LStrip(Tail(cs)) ELSE cs

RECURSIVE RStrip(_)
RStrip(cs) ==
    IF cs /= <<>> /\ cs[Len(cs)] \in Whitespace THEN RStrip(SubSeq(cs, 1, Len(cs) - 1)) ELSE cs

Strip(cs) == RStrip(LStrip(cs))

\* str.lower()
LowerChar(c) == CASE c = "A" -> "a" [] c = "L" -> "l" [] OTHER -> c
Lower(cs) == [i \in 1..Len(cs) |-> LowerChar(cs[i])]

DigitVal(c) == CASE c = "0" -> 0 [] c = "1" -> 1 [] c = "2" -> 2 [] c = "3" -> 3
                 [] c = "4" -> 4 [] c = "5" -> 5 [] c = "6" -> 6 [] c = "7" -> 7
                 [] c = "8" -> 8 [] c = "9" -> 9
DigitChar(d) == CASE d = 0 -> "0" [] d = 1 -> "1" [] d = 2 -> "2" [] d = 3 -> "3"
                  [] d = 4 -> "4" [] d = 5 -> "5" [] d = 6 -> "6" [] d = 7 -> "7"
                  [] d = 8 -> "8" [] d = 9 -> "9"

\* str(int): decimal rendering, as the f-strings of the builders do
RECURSIVE NatToStr(_)
NatToStr(n) == IF n < 10 THEN DigitChar(n) ELSE NatToStr(n \div 10) \o DigitChar(n % 10)
IntToStr(n) == IF n < 0 THEN "-" \o NatToStr(0 - n) ELSE NatToStr(n)

\* int(str): surrounding whitespace, one optional sign, decimal digits with
\* single underscores between digits; anything else raises ValueError.
RECURSIVE DigitsValue(_, _)
DigitsValue(cs, acc) ==
    IF cs = <<>> THEN acc
    ELSE IF Head(cs) = "_" THEN DigitsValue(Tail(cs), acc)
    ELSE DigitsValue(Tail(cs), 10 * acc + DigitVal(Head(cs)))

ValidDigits(cs) ==
    /\ cs /= <<>>
    /\ cs[1] \in Digits
    /\ cs[Len(cs)] \in Digits
    /\ \A i \in 1..Len(cs) : cs[i] \in Digits \cup {"_"}
    /\ \A i \in 1..(Len(cs) - 1) : ~(cs[i] = "_" /\ cs[i + 1] = "_")

ParseInt(cs) ==
    LET t == Strip(cs)
        signed == t /= <<>> /\ Head(t) \in {"+", "-"}
        body == IF signed THEN Tail(t) ELSE t
        mag == DigitsValue(body, 0)
    IN  IF ValidDigits(body)
        THEN [ok |-> TRUE, v |-> IF signed /\ Head(t) = "-" THEN 0 - mag ELSE mag]
        ELSE [ok |-> FALSE, v |-> 0]

\* int(x) for the values the builder can be handed
PyIntOf(x) ==
    CASE x.ty = "int" -> [ok |-> TRUE, v |-> x.i]
      [] x.ty = "str" -> ParseInt(x.cs)

\* str(x)
PyStrOf(x) == CASE x.ty = "int" -> IntToStr(x.i) [] x.ty = "str" -> Join(x.cs)


\* ------------------------------------------------------------- the state
VARIABLES
    cfg,        \* module-level configuration, fixed after startup
    muteFlag,   \* mute flag of the default audio endpoint
    comDepth,   \* per thread: outstanding CoInitializeEx calls
    comMode,    \* per thread: apartment of the thread's COM session
    pc,         \* per thread: position of the request being handled
    req,        \* per thread: the request
    loc,        \* per thread: local variables of the handler and its callees
    child,      \* per thread: the child process run_command spawned
    resp,       \* per thread: the response, None until the handler returns
    eff,        \* per thread: what the request has done so far
    chain,      \* history: the current run of toggle requests on the mute flag
    fnIn,       \* builder input (builder specification)
    fnOut       \* builder results (builder specification)

vars == <<cfg, muteFlag, comDepth, comMode, pc, req, loc, child, resp, eff, chain, fnIn, fnOut>>

NumThreads == 2
Threads == 1..NumThreads

\* ------------------------------------------------- configuration (startup)
DefaultExe == "Twinkle Tray.exe"
InstalledExe == "C:/Programs/twinkle-tray/Twinkle Tray.exe"
CREATE_NO_WINDOW == 134217728
RPC_E_CHANGED_MODE == -2147417850
S_OK == 0
S_FALSE == 1
Timeout == 15

\* twinkle_tray_base_path / twinkle_tray_base_path_found, and what
\* shutil.which answers for the base path
ExeConfigs ==
    {[path |-> InstalledExe, found |-> TRUE, onPath |-> FALSE],
     [path |-> DefaultExe, found |-> FALSE, onPath |-> TRUE],
     [path |-> DefaultExe, found |-> FALSE, onPath |-> FALSE]}

\* API_AUTH_ENABLED / EXPECTED_API_KEY
AuthConfigs ==
    {[enabled |-> FALSE, key |-> "k1"],
     [enabled |-> TRUE, key |-> "k1"],
     [enabled |-> TRUE, key |-> ""]}

\* pycaw import (AudioUtilities and IAudioEndpointVolume come from one
\* import statement) and pythoncom import
AudioConfigs == [pycaw : BOOLEAN, pythoncom : BOOLEAN]

Configs == [exe : ExeConfigs, auth : AuthConfigs, audio : AudioConfigs]

\* `not twinkle_tray_base_path_found and not shutil.which(...)` negated
ExeResolvable == cfg.exe.found \/ cfg.exe.onPath

\* ------------------------------------------------------ command builders
BuilderResult(parts, error) == [parts |-> parts, error |-> error]

ExeNotFoundMessage == "Twinkle Tray executable '" \o cfg.exe.path \o "' not found."
PositiveIntMessage == "Monitor number must be a positive integer."
LevelMessage == "Brightness must be an integer from 0 to 100."
NegativeMessage == "Monitor number cannot be negative."
InvalidSelectorMessage(x) ==
    "Invalid monitor number: '" \o PyStrOf(x) \o "'. Expected a positive integer, 0, or 'all'."

PowerAcceptsZero(monitor_num, power_state_vcp) ==
    IF ~ExeResolvable THEN BuilderResult(None, Text(ExeNotFoundMessage))
    ELSE IF monitor_num.ty /= "int" \/ monitor_num.i < 0
    THEN BuilderResult(None, Text(PositiveIntMessage))
    ELSE BuilderResult(PyList(<<cfg.exe.path, "--MonitorNum=" \o IntToStr(monitor_num.i),
                                "--VCP=" \o power_state_vcp>>), None)

\* the power builder with its two tests exchanged
PowerValidatesFirst(monitor_num, power_state_vcp) ==
    IF monitor_num.ty /= "int" \/ monitor_num.i <= 0
    THEN BuilderResult(None, Text(PositiveIntMessage))
    ELSE IF ~ExeResolvable THEN BuilderResult(None, Text(ExeNotFoundMessage))
    ELSE BuilderResult(PyList(<<cfg.exe.path, "--MonitorNum=" \o IntToStr(monitor_num.i),
                                "--VCP=" \o power_state_vcp>>), None)

get_twinkle_power_command_parts(monitor_num, power_state_vcp) ==
    IF ~ExeResolvable THEN BuilderResult(None, Text(ExeNotFoundMessage))
    ELSE IF monitor_num.ty /= "int" \/ monitor_num.i <= 0
    THEN BuilderResult(None, Text(PositiveIntMessage))
    ELSE BuilderResult(PyList(<<cfg.exe.path, "--MonitorNum=" \o IntToStr(monitor_num.i),
                                "--VCP=" \o power_state_vcp>>), None)

AllMonitorsParts(level) == PyList(<<cfg.exe.path, "--AllMonitors", "--Set=" \o IntToStr(level)>>)
OneMonitorParts(n, level) ==
    PyList(<<cfg.exe.path, "--MonitorNum=" \o IntToStr(n), "--Set=" \o IntToStr(level)>>)

BrightnessCoercesToAll(monitor_num_input, brightness_level) ==
    IF ~ExeResolvable THEN BuilderResult(None, Text(ExeNotFoundMessage))
    ELSE IF ~(brightness_level.ty = "int" /\ 0 <= brightness_level.i /\ brightness_level.i <= 100)
    THEN BuilderResult(None, Text(LevelMessage))
    ELSE LET parsed == PyIntOf(monitor_num_input)
         IN  IF parsed.ok
             THEN IF parsed.v = 0 THEN BuilderResult(AllMonitorsParts(brightness_level.i), None)
                  ELSE IF parsed.v > 0
                  THEN BuilderResult(OneMonitorParts(parsed.v, brightness_level.i), None)
                  ELSE BuilderResult(None, Text(NegativeMessage))
             ELSE BuilderResult(AllMonitorsParts(brightness_level.i), None)

get_twinkle_brightness_command_parts(monitor_num_input, brightness_level) ==
    IF ~ExeResolvable THEN BuilderResult(None, Text(ExeNotFoundMessage))
    ELSE IF ~(brightness_level.ty = "int" /\ 0 <= brightness_level.i /\ brightness_level.i <= 100)
    THEN BuilderResult(None, Text(LevelMessage))
    ELSE LET parsed == PyIntOf(monitor_num_input)
         IN  IF parsed.ok
             THEN IF parsed.v = 0 THEN BuilderResult(AllMonitorsParts(brightness_level.i), None)
                  ELSE IF parsed.v > 0
                  THEN BuilderResult(OneMonitorParts(parsed.v, brightness_level.i), None)
                  ELSE BuilderResult(None, Text(NegativeMessage))
             ELSE IF Lower(monitor_num_input.cs) = <<"a", "l", "l">>
                  THEN BuilderResult(AllMonitorsParts(brightness_level.i), None)
                  ELSE BuilderResult(None, Text(InvalidSelectorMessage(monitor_num_input)))

\* ------------------------------------------------ per-thread bookkeeping
NoLocals ==
    [cmd |-> None,          \* command_parts
     result |-> None,       \* (success, message) of run_command / set / get
     op |-> "none",         \* audio operation in progress: "set" or "get"
     setTo |-> FALSE,       \* mute_state argument of set_system_mute
     phase |-> "none",      \* toggle: "read" then "write"
     current |-> None,      \* toggle: current_mute_state
     comHere |-> FALSE,     \* com_initialized_here
     speakers |-> FALSE,    \* GetSpeakers returned a device
     volume |-> FALSE,      \* master_volume is not None
     error |-> None,        \* error_message
     life |-> <<>>]         \* lifecycle steps of the audio call so far

NoChild == [state |-> "none", elapsed |-> 0, flags |-> 0, code |-> 0, out |-> <<>>, err |-> <<>>]

NoEffects ==
    [handler |-> FALSE,     \* the view function was entered
     builds |-> 0,          \* calls of a command builder
     spawns |-> 0,          \* child processes started
     inits |-> 0,           \* calls of CoInitializeEx
     reads |-> 0,           \* GetMute calls that read the flag
     writes |-> 0,          \* SetMute calls that wrote the flag
     readVal |-> None,      \* the value last read
     wroteVal |-> None]     \* the value last written

NoChain == [stage |-> "none", start |-> FALSE, owner |-> 0]

Quiet(c, m, amb) ==
    /\ cfg = c
    /\ muteFlag = m
    /\ comMode = [t \in Threads |-> amb]
    /\ comDepth = [t \in Threads |-> IF amb = "none" THEN 0 ELSE 1]
    /\ pc = [t \in Threads |-> "idle"]
    /\ req = [t \in Threads |-> None]
    /\ loc = [t \in Threads |-> NoLocals]
    /\ child = [t \in Threads |-> NoChild]
    /\ resp = [t \in Threads |-> None]
    /\ eff = [t \in Threads |-> NoEffects]
    /\ chain = NoChain

\* --------------------------------------------- the builders on their own
PowerInputs == {PyInt(n) : n \in -1..MaxMonitor} \cup {PyStr(cs) : cs \in SeqsUpTo(SelectorChars, MaxLen)}
LevelInputs == {PyInt(n) : n \in {-1, 0, 50, 100, 101}} \cup {PyStr(<<"5", "0">>)}
BuilderConfigs == {c \in Configs : c.auth.enabled = FALSE /\ c.audio = [pycaw |-> TRUE, pythoncom |-> TRUE]}

InitBuilder ==
    /\ \E c \in BuilderConfigs : Quiet(c, FALSE, "none")
    /\ \/ fnIn \in [fn : {"power"}, sel : PowerInputs, level : {None}]
       \/ fnIn \in [fn : {"brightness"}, sel : PowerInputs, level : LevelInputs]
    /\ fnOut = [on |-> None, off |-> None, bright |-> None]

BuildPowerOn ==
    /\ fnIn.fn = "power" /\ fnOut.on = None
    /\ fnOut' = [fnOut EXCEPT !.on = get_twinkle_power_command_parts(fnIn.sel, "0xD6:1")]
    /\ UNCHANGED <<cfg, muteFlag, comDepth, comMode, pc, req, loc, child, resp, eff, chain, fnIn>>

BuildPowerOff ==
    /\ fnIn.fn = "power" /\ fnOut.off = None
    /\ fnOut' = [fnOut EXCEPT !.off = get_twinkle_power_command_parts(fnIn.sel, "0xD6:5")]
    /\ UNCHANGED <<cfg, muteFlag, comDepth, comMode, pc, req, loc, child, resp, eff, chain, fnIn>>

BuildBrightness ==
    /\ fnIn.fn = "brightness" /\ fnOut.bright = None
    /\ fnOut' = [fnOut EXCEPT !.bright = get_twinkle_brightness_command_parts(fnIn.sel, fnIn.level)]
    /\ UNCHANGED <<cfg, muteFlag, comDepth, comMode, pc, req, loc, child, resp, eff, chain, fnIn>>

NextBuilder == BuildPowerOn \/ BuildPowerOff \/ BuildBrightness

SpecBuilder == InitBuilder /\ [][NextBuilder]_vars

\* ----------------------------------------------------------- the requests
Headers == {None, Text(""), Text("k1"), Text("k2")}
BrightnessSelectors == {<<"1">>, <<"0">>, <<"a", "l", "l">>, <<"-", "1">>, <<"a">>}
AudioEndpoints == {"mute", "unmute", "toggle", "status"}
MonitorEndpoints == {"on", "off", "brightness"}

Requests ==
    [ep : {"on", "off", "placeholder"}, hdr : Headers,
     num : {PyInt(n) : n \in 0..MaxMonitor}, level : {None}]
    \cup [ep : {"brightness"}, hdr : Headers,
          num : {PyStr(cs) : cs \in BrightnessSelectors}, level : {PyInt(50), PyInt(101)}]
    \cup [ep : AudioEndpoints, hdr : Headers, num : {None}, level : {None}]

\* ---------------------------------------------------------- the responses
\* abort(code, description), and Flask's answer to an exception that leaves
\* the view function: an HTML error page, not a jsonify body
ErrorPage(code, description) ==
    [code |-> code, json |-> FALSE, status |-> "", action |-> "", audio_muted |-> None,
     message |-> description, details |-> None]

Jsonify(code, status, action, muted, message, details) ==
    [code |-> code, json |-> TRUE, status |-> status, action |-> action, audio_muted |-> muted,
     message |-> message, details |-> details]

\* -------------------------------------------------------------- the guard
GuardIgnoresEmpty(api_key) ==
    IF cfg.auth.enabled
    THEN IF api_key = None THEN 401
         ELSE IF api_key.s /= cfg.auth.key THEN 403
         ELSE 0
    ELSE 0

GuardAcceptsAll(api_key) ==
    IF cfg.auth.enabled
    THEN IF api_key = None \/ api_key.s = "" THEN 401
         ELSE 0
    ELSE 0

\* decorated_function: 0 lets the view function run, 401 / 403 abort
require_api_key(api_key) ==
    IF cfg.auth.enabled
    THEN IF api_key = None \/ api_key.s = "" THEN 401
         ELSE IF api_key.s /= cfg.auth.key THEN 403
         ELSE 0
    ELSE 0

AbortDescription(code) ==
    IF code = 401 THEN "API key required. Please provide it in the 'X-API-Key' header."
    ELSE "Invalid API key."

EntryPoint(ep) ==
    CASE ep \in {"on", "off"} -> "power"
      [] ep = "brightness" -> "bright"
      [] ep = "placeholder" -> "placeholder"
      [] ep \in AudioEndpoints -> "audio"

Receive(t) ==
    /\ pc[t] = "idle"
    /\ \E r \in Requests : req' = [req EXCEPT ![t] = r]
    /\ pc' = [pc EXCEPT ![t] = "guard"]
    /\ UNCHANGED <<cfg, muteFlag, comDepth, comMode, loc, child, resp, eff, chain, fnIn, fnOut>>

Guard(t) ==
    /\ pc[t] = "guard"
    /\ LET verdict == require_api_key(req[t].hdr)
       IN  IF verdict /= 0
           THEN /\ resp' = [resp EXCEPT ![t] = ErrorPage(verdict, AbortDescription(verdict))]
                /\ pc' = [pc EXCEPT ![t] = "done"]
                /\ eff' = eff
           ELSE /\ pc' = [pc EXCEPT ![t] = EntryPoint(req[t].ep)]
                /\ eff' = [eff EXCEPT ![t].handler = TRUE]
                /\ resp' = resp
    /\ UNCHANGED <<cfg, muteFlag, comDepth, comMode, req, loc, child, chain, fnIn, fnOut>>

\* -------------------------------------------------- monitor view functions
PowerCode(ep) == IF ep = "on" THEN "0xD6:1" ELSE "0xD6:5"
PowerAction(ep) == IF ep = "on" THEN "MONITOR_ON_VCP" ELSE "MONITOR_OFF_VCP"

\* monitor_on_vcp / monitor_off_vcp up to the call of run_command
MonitorPower(t) ==
    /\ pc[t] = "power"
    /\ LET built == get_twinkle_power_command_parts(req[t].num, PowerCode(req[t].ep))
       IN  /\ eff' = [eff EXCEPT ![t].builds = @ + 1]
           /\ IF Truthy(built.error)
              THEN /\ resp' = [resp EXCEPT ![t] =
                          Jsonify(400, "error", "", None, built.error.s, None)]
                   /\ pc' = [pc EXCEPT ![t] = "done"]
                   /\ loc' = loc
              ELSE /\ loc' = [loc EXCEPT ![t].cmd = built.parts]
                   /\ pc' = [pc EXCEPT ![t] = "rc_spawn"]
                   /\ resp' = resp
    /\ UNCHANGED <<cfg, muteFlag, comDepth, comMode, req, child, chain, fnIn, fnOut>>

\* set_monitor_brightness up to the call of run_command
MonitorBrightness(t) ==
    /\ pc[t] = "bright"
    /\ LET built == get_twinkle_brightness_command_parts(req[t].num, req[t].level)
       IN  /\ eff' = [eff EXCEPT ![t].builds = @ + 1]
           /\ IF Truthy(built.error)
              THEN /\ resp' = [resp EXCEPT ![t] =
                          Jsonify(400, "error", "", None, built.error.s, None)]
                   /\ pc' = [pc EXCEPT ![t] = "done"]
                   /\ loc' = loc
              ELSE /\ loc' = [loc EXCEPT ![t].cmd = built.parts]
                   /\ pc' = [pc EXCEPT ![t] = "rc_spawn"]
                   /\ resp' = resp
    /\ UNCHANGED <<cfg, muteFlag, comDepth, comMode, req, child, chain, fnIn, fnOut>>

\* ------------------------------------------------------------ run_command
Result(val, msg) == [val |-> val, msg |-> msg]

GenericSuccess == "Command executed successfully."
TimeoutMessage == "Command timed out."
NotFoundMessage(parts) == "Error: executable '" \o parts.l[1] \o "' not found."
UnexpectedMessage(e) == "Unexpected error: " \o e
UnknownError(code) == "Unknown error (return code: " \o IntToStr(code) \o ")"

\* str.lower() of the executable names the model knows
LowerName(s) ==
    CASE s = DefaultExe -> "twinkle tray.exe"
      [] s = InstalledExe -> "c:/programs/twinkle-tray/twinkle tray.exe"
      [] OTHER -> s

\* creationflags as lines 132-134 compute them
CreationFlags(parts) == IF LowerName(parts.l[1]) = "powershell" THEN CREATE_NO_WINDOW ELSE 0

\* `a or b` on strings
OrElse(a, b) == IF a /= "" THEN a ELSE b

ClassifyStdoutFirst(code, out, err) ==
    IF code = 0
    THEN Result(PyBool(TRUE), Text(OrElse(Join(Strip(out)), GenericSuccess)))
    ELSE Result(PyBool(FALSE),
                Text("Command error: "
                     \o OrElse(Join(Strip(out)), OrElse(Join(Strip(err)), UnknownError(code)))))

\* lines 138-144: the result of a child that exited by itself
Classify(code, out, err) ==
    IF code = 0
    THEN Result(PyBool(TRUE), Text(OrElse(Join(Strip(out)), GenericSuccess)))
    ELSE Result(PyBool(FALSE),
                Text("Command error: "
                     \o OrElse(Join(Strip(err)), OrElse(Join(Strip(out)), UnknownError(code)))))

SpawnErrors == {"Access is denied"}

\* subprocess.Popen: the child starts, or Popen raises
RcSpawn(t) ==
    /\ pc[t] = "rc_spawn"
    /\ \/ /\ child' = [child EXCEPT ![t] = [NoChild EXCEPT !.state = "running",
                                                           !.flags = CreationFlags(loc[t].cmd)]]
          /\ eff' = [eff EXCEPT ![t].spawns = @ + 1]
          /\ pc' = [pc EXCEPT ![t] = "rc_wait"]
          /\ loc' = loc
       \/ /\ loc' = [loc EXCEPT ![t].result =
                        Result(PyBool(FALSE), Text(NotFoundMessage(loc[t].cmd)))]
          /\ pc' = [pc EXCEPT ![t] = "respond"]
          /\ UNCHANGED <<child, eff>>
       \/ /\ \E e \in SpawnErrors :
                loc' = [loc EXCEPT ![t].result = Result(PyBool(FALSE), Text(UnexpectedMessage(e)))]
          /\ pc' = [pc EXCEPT ![t] = "respond"]
          /\ UNCHANGED <<child, eff>>
    /\ UNCHANGED <<cfg, muteFlag, comDepth, comMode, req, resp, chain, fnIn, fnOut>>

\* time passes inside communicate(timeout=15) while the child runs
RcTick(t) ==
    /\ pc[t] = "rc_wait"
    /\ child[t].state = "running"
    /\ child[t].elapsed < Timeout
    /\ child' = [child EXCEPT ![t].elapsed = @ + 1]
    /\ UNCHANGED <<cfg, muteFlag, comDepth, comMode, pc, req, loc, resp, eff, chain, fnIn, fnOut>>

\* the child exits before the timeout: communicate returns, lines 138-144
\* (elapsed is communicate's timer; it ends with the call)
RcExit(t, codes, outs, errs) ==
    /\ pc[t] = "rc_wait"
    /\ child[t].state = "running"
    /\ child[t].elapsed < Timeout
    /\ \E code \in codes, out \in outs, err \in errs :
          /\ child' = [child EXCEPT ![t].state = "exited", ![t].elapsed = 0,
                                    ![t].code = code, ![t].out = out, ![t].err = err]
          /\ loc' = [loc EXCEPT ![t].result = Classify(code, out, err)]
    /\ pc' = [pc EXCEPT ![t] = "respond"]
    /\ UNCHANGED <<cfg, muteFlag, comDepth, comMode, req, resp, eff, chain, fnIn, fnOut>>

\* communicate raises something else (a decoding error, a broken pipe):
\* `except Exception`, lines 152-154; nothing kills the child here
RcCommunicateError(t) ==
    /\ pc[t] = "rc_wait"
    /\ child[t].state = "running"
    /\ child[t].elapsed < Timeout
    /\ loc' = [loc EXCEPT ![t].result =
                  Result(PyBool(FALSE), Text(UnexpectedMessage("codec can't decode")))]
    /\ child' = [child EXCEPT ![t].elapsed = 0]
    /\ pc' = [pc EXCEPT ![t] = "respond"]
    /\ UNCHANGED <<cfg, muteFlag, comDepth, comMode, req, resp, eff, chain, fnIn, fnOut>>

\* the timeout expires with the child still running: TimeoutExpired
RcTimeout(t) ==
    /\ pc[t] = "rc_wait"
    /\ child[t].state = "running"
    /\ child[t].elapsed = Timeout
    /\ pc' = [pc EXCEPT ![t] = "rc_kill"]
    /\ UNCHANGED <<cfg, muteFlag, comDepth, comMode, req, loc, child, resp, eff, chain, fnIn, fnOut>>

\* line 150, process.kill(): runs inside the `except TimeoutExpired` clause,
\* so what it raises is not caught by the `except Exception` clause after it
RcKill(t) ==
    /\ pc[t] = "rc_kill"
    /\ \/ /\ child' = [child EXCEPT ![t].state = "killed"]
          /\ pc' = [pc EXCEPT ![t] = "rc_drain"]
       \/ /\ pc' = [pc EXCEPT ![t] = "unhandled"]
          /\ child' = child
    /\ UNCHANGED <<cfg, muteFlag, comDepth, comMode, req, loc, resp, eff, chain, fnIn, fnOut>>

\* line 150-151, process.communicate() after the kill, then the return
RcDrain(t) ==
    /\ pc[t] = "rc_drain"
    /\ \/ /\ loc' = [loc EXCEPT ![t].result = Result(PyBool(FALSE), Text(TimeoutMessage))]
          /\ pc' = [pc EXCEPT ![t] = "respond"]
       \/ /\ pc' = [pc EXCEPT ![t] = "unhandled"]
          /\ loc' = loc
    /\ UNCHANGED <<cfg, muteFlag, comDepth, comMode, req, child, resp, eff, chain, fnIn, fnOut>>

\* str.isdigit()
IsDigitStr(cs) == cs /= <<>> /\ \A i \in 1..Len(cs) : cs[i] \in Digits

\* target_description, line 208
TargetDescription(sel) ==
    IF IsDigitStr(sel.cs) /\ ParseInt(sel.cs).v > 0 THEN "Monitor " \o Join(sel.cs)
    ELSE "All monitors"

\* the message field of the monitor responses
MonitorMessage(r, success) ==
    CASE r.ep = "on" -> IF success THEN "Monitor turned on by VCP command."
                        ELSE "Turning the monitor on by VCP command failed."
      [] r.ep = "off" -> IF success THEN "Monitor turned off / standby by VCP command."
                         ELSE "Turning the monitor off / standby by VCP command failed."
      [] r.ep = "brightness" ->
            IF success
            THEN TargetDescription(r.num) \o " brightness set to " \o IntToStr(r.level.i) \o "%."
            ELSE "Setting " \o TargetDescription(r.num) \o " brightness to "
                 \o IntToStr(r.level.i) \o "% failed."

\* the tail of the monitor view functions with one retry of run_command
\* after a failure
MonitorRespondRetries(t) ==
    /\ pc[t] = "respond"
    /\ LET r == loc[t].result
           action == IF req[t].ep = "brightness" THEN "" ELSE PowerAction(req[t].ep)
       IN  IF ~r.val.b /\ eff[t].spawns < 2
           THEN /\ pc' = [pc EXCEPT ![t] = "rc_spawn"]
                /\ resp' = resp
           ELSE /\ resp' = [resp EXCEPT ![t] =
                       IF r.val.b
                       THEN Jsonify(200, "success", action, None, MonitorMessage(req[t], TRUE), r.msg)
                       ELSE Jsonify(500, "error", action, None, MonitorMessage(req[t], FALSE), r.msg)]
                /\ pc' = [pc EXCEPT ![t] = "done"]
    /\ UNCHANGED <<cfg, muteFlag, comDepth, comMode, req, loc, child, eff, chain, fnIn, fnOut>>

\* the tail of the monitor view functions: map run_command's result
MonitorRespond(t) ==
    /\ pc[t] = "respond"
    /\ LET r == loc[t].result
           action == IF req[t].ep = "brightness" THEN "" ELSE PowerAction(req[t].ep)
       IN  resp' = [resp EXCEPT ![t] =
                IF r.val.b
                THEN Jsonify(200, "success", action, None, MonitorMessage(req[t], TRUE), r.msg)
                ELSE Jsonify(500, "error", action, None, MonitorMessage(req[t], FALSE), r.msg)]
    /\ pc' = [pc EXCEPT ![t] = "done"]
    /\ UNCHANGED <<cfg, muteFlag, comDepth, comMode, req, loc, child, eff, chain, fnIn, fnOut>>

\* an exception left the view function: Flask answers 500 with its error page
Unhandled(t) ==
    /\ pc[t] = "unhandled"
    /\ resp' = [resp EXCEPT ![t] = ErrorPage(500, "Internal Server Error")]
    /\ pc' = [pc EXCEPT ![t] = "done"]
    /\ UNCHANGED <<cfg, muteFlag, comDepth, comMode, req, loc, child, eff, chain, fnIn, fnOut>>

\* monitor_status_placeholder
Placeholder(t) ==
    /\ pc[t] = "placeholder"
    /\ resp' = [resp EXCEPT ![t] =
            IF req[t].num.ty /= "int" \/ req[t].num.i <= 0
            THEN Jsonify(400, "error", "", None, PositiveIntMessage, None)
            ELSE Jsonify(200, "info", "", None, "placeholder", None)]
    /\ pc' = [pc EXCEPT ![t] = "done"]
    /\ UNCHANGED <<cfg, muteFlag, comDepth, comMode, req, loc, child, eff, chain, fnIn, fnOut>>

\* the response is sent; the worker thread takes the next request
Finish(t) ==
    /\ pc[t] = "done"
    /\ pc' = [pc EXCEPT ![t] = "idle"]
    /\ req' = [req EXCEPT ![t] = None]
    /\ loc' = [loc EXCEPT ![t] = NoLocals]
    /\ child' = [child EXCEPT ![t] = NoChild]
    /\ resp' = [resp EXCEPT ![t] = None]
    /\ eff' = [eff EXCEPT ![t] = NoEffects]
    /\ UNCHANGED <<cfg, muteFlag, comDepth, comMode, chain, fnIn, fnOut>>

\* ---------------------------------------------------- audio view functions
UnavailableMessage == "Audio control unavailable (pycaw not loaded)."
PycawMissingMessage == "pycaw or one of its components is not loaded."
NoSpeakersMessage == "Could not get the default speaker device."
NotActivatedMessage == "Could not activate the master volume interface."

AudioAction(ep) ==
    CASE ep = "mute" -> "MUTE" [] ep = "unmute" -> "UNMUTE"
      [] ep = "toggle" -> "TOGGLE_MUTE" [] ep = "status" -> ""

\* the audio view functions without their first line (`if AudioUtilities is None`)
AudioEntryUnguarded(t) ==
    /\ pc[t] = "audio"
    /\ loc' = [loc EXCEPT ![t] =
           CASE req[t].ep = "mute" -> [NoLocals EXCEPT !.op = "set", !.setTo = TRUE]
             [] req[t].ep = "unmute" -> [NoLocals EXCEPT !.op = "set", !.setTo = FALSE]
             [] req[t].ep = "toggle" -> [NoLocals EXCEPT !.op = "get", !.phase = "read"]
             [] req[t].ep = "status" -> [NoLocals EXCEPT !.op = "get"]]
    /\ pc' = [pc EXCEPT ![t] = "gc_enter"]
    /\ UNCHANGED <<cfg, muteFlag, comDepth, comMode, req, child, resp, eff, chain, fnIn, fnOut>>


\* audio_mute and audio_unmute written relative to the present flag: mute
\* passes its negation, unmute passes the flag itself
AudioEntryRelative(t) ==
    /\ pc[t] = "audio"
    /\ IF ~cfg.audio.pycaw
       THEN /\ resp' = [resp EXCEPT ![t] =
                   Jsonify(503, "error", AudioAction(req[t].ep), None, UnavailableMessage, None)]
            /\ pc' = [pc EXCEPT ![t] = "done"]
            /\ loc' = loc
       ELSE /\ loc' = [loc EXCEPT ![t] =
                   CASE req[t].ep = "mute" -> [NoLocals EXCEPT !.op = "set", !.setTo = ~muteFlag]
                     [] req[t].ep = "unmute" -> [NoLocals EXCEPT !.op = "set", !.setTo = muteFlag]
                     [] req[t].ep = "toggle" -> [NoLocals EXCEPT !.op = "get", !.phase = "read"]
                     [] req[t].ep = "status" -> [NoLocals EXCEPT !.op = "get"]]
            /\ pc' = [pc EXCEPT ![t] = "gc_enter"]
            /\ resp' = resp
    /\ UNCHANGED <<cfg, muteFlag, comDepth, comMode, req, child, eff, chain, fnIn, fnOut>>

\* first line of audio_mute / audio_unmute / audio_mute_toggle / audio_status,
\* then the call of set_system_mute or get_system_mute_status
AudioEntry(t) ==
    /\ pc[t] = "audio"
    /\ IF ~cfg.audio.pycaw
       THEN /\ resp' = [resp EXCEPT ![t] =
                   Jsonify(503, "error", AudioAction(req[t].ep), None, UnavailableMessage, None)]
            /\ pc' = [pc EXCEPT ![t] = "done"]
            /\ loc' = loc
       ELSE /\ loc' = [loc EXCEPT ![t] =
                   CASE req[t].ep = "mute" -> [NoLocals EXCEPT !.op = "set", !.setTo = TRUE]
                     [] req[t].ep = "unmute" -> [NoLocals EXCEPT !.op = "set", !.setTo = FALSE]
                     [] req[t].ep = "toggle" -> [NoLocals EXCEPT !.op = "get", !.phase = "read"]
                     [] req[t].ep = "status" -> [NoLocals EXCEPT !.op = "get"]]
            /\ pc' = [pc EXCEPT ![t] = "gc_enter"]
            /\ resp' = resp
    /\ UNCHANGED <<cfg, muteFlag, comDepth, comMode, req, child, eff, chain, fnIn, fnOut>>

\* what CoInitializeEx(COINIT_APARTMENTTHREADED) answers on this thread
CoInitializeHr(t) ==
    IF comDepth[t] = 0 THEN S_OK
    ELSE IF comMode[t] = "STA" THEN S_FALSE
    ELSE RPC_E_CHANGED_MODE

CoInitOutcomes == {"hr", "AttributeError", "already initialized", "com_error"}

\* _get_master_volume_control, lines 222-234
GcCoInit(t) ==
    /\ pc[t] = "gc_enter"
    /\ IF ~cfg.audio.pycaw
       THEN /\ loc' = [loc EXCEPT ![t].error = Text(PycawMissingMessage)]
            /\ pc' = [pc EXCEPT ![t] = "audio_op"]
            /\ UNCHANGED <<comDepth, comMode, eff>>
       ELSE IF ~cfg.audio.pythoncom
       THEN /\ pc' = [pc EXCEPT ![t] = "gc_speakers"]
            /\ UNCHANGED <<comDepth, comMode, eff, loc>>
       ELSE \E o \in CoInitOutcomes :
            /\ eff' = [eff EXCEPT ![t].inits = @ + 1]
            /\ IF o = "hr"
               THEN LET hr == CoInitializeHr(t)
                        here == hr = S_OK \/ hr = S_FALSE
                    IN  /\ comDepth' = [comDepth EXCEPT ![t] = IF here THEN @ + 1 ELSE @]
                        /\ comMode' = [comMode EXCEPT ![t] = IF hr = S_OK THEN "STA" ELSE @]
                        /\ loc' = [loc EXCEPT ![t].comHere = here,
                                              ![t].life = IF here THEN Append(@, "init") ELSE @]
                        /\ pc' = [pc EXCEPT ![t] = "gc_speakers"]
               ELSE IF o = "com_error"
               THEN /\ loc' = [loc EXCEPT ![t].error = Text("COM initialization failed: " \o o)]
                    /\ pc' = [pc EXCEPT ![t] = "audio_op"]
                    /\ UNCHANGED <<comDepth, comMode>>
               ELSE /\ pc' = [pc EXCEPT ![t] = "gc_speakers"]
                    /\ UNCHANGED <<comDepth, comMode, loc>>
    /\ UNCHANGED <<cfg, muteFlag, req, child, resp, chain, fnIn, fnOut>>

SpeakerOutcomes == {"device", "none", "AttributeError", "Exception"}

\* lines 237-238 and the except clauses 245-250
GcSpeakers(t) ==
    /\ pc[t] = "gc_speakers"
    /\ \E o \in SpeakerOutcomes :
          IF o = "device"
          THEN /\ loc' = [loc EXCEPT ![t].speakers = TRUE]
               /\ pc' = [pc EXCEPT ![t] = "gc_activate"]
          ELSE /\ loc' = [loc EXCEPT ![t].error =
                      IF o = "none" THEN Text(NoSpeakersMessage)
                      ELSE IF o = "AttributeError"
                      THEN Text("Error getting master volume control (AttributeError): " \o o)
                      ELSE Text("Error getting master volume control: " \o o)]
               /\ pc' = [pc EXCEPT ![t] = "gc_finally"]
    /\ UNCHANGED <<cfg, muteFlag, comDepth, comMode, req, child, resp, eff, chain, fnIn, fnOut>>

ActivateOutcomes == {"endpoint volume", "other interface", "query gives none",
                     "AttributeError", "Exception"}

\* lines 240-244 and the except clauses 245-250
GcActivate(t) ==
    /\ pc[t] = "gc_activate"
    /\ \E o \in ActivateOutcomes :
          loc' = [loc EXCEPT ![t] =
              IF o \in {"endpoint volume", "other interface"}
              THEN [@ EXCEPT !.volume = TRUE, !.life = Append(@, "acquire")]
              ELSE IF o = "query gives none" THEN @
              ELSE IF o = "AttributeError"
              THEN [@ EXCEPT !.error =
                       Text("Error getting master volume control (AttributeError): " \o o)]
              ELSE [@ EXCEPT !.error = Text("Error getting master volume control: " \o o)]]
    /\ pc' = [pc EXCEPT ![t] = "gc_finally"]
    /\ UNCHANGED <<cfg, muteFlag, comDepth, comMode, req, child, resp, eff, chain, fnIn, fnOut>>

\* the end of _get_master_volume_control without the CoUninitialize call
GcFinallyKeepsSession(t) ==
    /\ pc[t] = "gc_finally"
    /\ loc' = [loc EXCEPT ![t].error = IF ~Truthy(loc[t].error) /\ ~loc[t].volume
                                       THEN Text(NotActivatedMessage) ELSE @]
    /\ pc' = [pc EXCEPT ![t] = "audio_op"]
    /\ UNCHANGED <<cfg, muteFlag, comDepth, comMode, req, child, resp, eff, chain, fnIn, fnOut>>

\* the finally clause, lines 251-254, and the returns, lines 255-257
GcFinally(t) ==
    /\ pc[t] = "gc_finally"
    /\ IF loc[t].comHere /\ cfg.audio.pythoncom
       THEN /\ comDepth' = [comDepth EXCEPT ![t] = @ - 1]
            /\ comMode' = [comMode EXCEPT ![t] = IF comDepth[t] = 1 THEN "none" ELSE @]
            /\ loc' = [loc EXCEPT ![t].life = Append(@, "release"),
                                  ![t].error = IF ~Truthy(loc[t].error) /\ ~loc[t].volume
                                               THEN Text(NotActivatedMessage) ELSE @]
       ELSE /\ UNCHANGED <<comDepth, comMode>>
            /\ loc' = [loc EXCEPT ![t].error = IF ~Truthy(loc[t].error) /\ ~loc[t].volume
                                               THEN Text(NotActivatedMessage) ELSE @]
    /\ pc' = [pc EXCEPT ![t] = "audio_op"]
    /\ UNCHANGED <<cfg, muteFlag, req, child, resp, eff, chain, fnIn, fnOut>>

\* the history of toggles: a toggle's read opens a run (or continues the run
\* a finished toggle left), its own write closes it, any other write ends it
ChainAfterRead(t) ==
    IF chain.stage = "w1"
    THEN [chain EXCEPT !.stage = "r2", !.owner = t]
    ELSE [stage |-> "r1", start |-> muteFlag, owner |-> t]

ChainAfterWrite(t, byToggle) ==
    IF byToggle /\ chain.owner = t /\ chain.stage = "r1" THEN [chain EXCEPT !.stage = "w1"]
    ELSE IF byToggle /\ chain.owner = t /\ chain.stage = "r2" THEN [chain EXCEPT !.stage = "w2"]
    ELSE NoChain

SetMessage(mute_state) ==
    "System master mute set to " \o (IF mute_state THEN "muted" ELSE "unmuted") \o "."
GetMessage == "Mute status read."

\* set_system_mute after the handle came back, lines 261-268
SetSystemMute(t) ==
    /\ pc[t] = "audio_op"
    /\ loc[t].op = "set"
    /\ IF Truthy(loc[t].error)
       THEN /\ loc' = [loc EXCEPT ![t].result = Result(PyBool(FALSE), loc[t].error)]
            /\ UNCHANGED <<muteFlag, eff, chain>>
       ELSE \/ /\ muteFlag' = loc[t].setTo
               /\ eff' = [eff EXCEPT ![t].writes = @ + 1, ![t].wroteVal = PyBool(loc[t].setTo)]
               /\ chain' = ChainAfterWrite(t, req[t].ep = "toggle")
               /\ loc' = [loc EXCEPT ![t].result =
                             Result(PyBool(TRUE), Text(SetMessage(loc[t].setTo))),
                                     ![t].life = Append(@, "op")]
            \/ /\ loc' = [loc EXCEPT ![t].result =
                             Result(PyBool(FALSE), Text("Error setting system mute: com_error")),
                                     ![t].life = Append(@, "op")]
               /\ UNCHANGED <<muteFlag, eff, chain>>
    /\ pc' = [pc EXCEPT ![t] = "audio_respond"]
    /\ UNCHANGED <<cfg, comDepth, comMode, req, child, resp, fnIn, fnOut>>

\* get_system_mute_status after the handle came back, lines 272-279
GetSystemMuteStatus(t) ==
    /\ pc[t] = "audio_op"
    /\ loc[t].op = "get"
    /\ IF Truthy(loc[t].error)
       THEN /\ loc' = [loc EXCEPT ![t].result = Result(None, loc[t].error)]
            /\ UNCHANGED <<eff, chain>>
       ELSE \/ /\ eff' = [eff EXCEPT ![t].reads = @ + 1, ![t].readVal = PyBool(muteFlag)]
               /\ chain' = IF req[t].ep = "toggle" THEN ChainAfterRead(t) ELSE chain
               /\ loc' = [loc EXCEPT ![t].result = Result(PyBool(muteFlag), Text(GetMessage)),
                                     ![t].life = Append(@, "op")]
            \/ /\ loc' = [loc EXCEPT ![t].result =
                             Result(None, Text("Error getting system mute status: com_error")),
                                     ![t].life = Append(@, "op")]
               /\ UNCHANGED <<eff, chain>>
    /\ pc' = [pc EXCEPT ![t] = "audio_respond"]
    /\ UNCHANGED <<cfg, muteFlag, comDepth, comMode, req, child, resp, fnIn, fnOut>>

InvertKeeps(current_mute_state) == current_mute_state

\* new_mute_state = not current_mute_state
Invert(current_mute_state) == ~current_mute_state

\* audio_mute_toggle without the test of lines 302-303: `not None` is True
ToggleWritesBlind(t) ==
    /\ pc[t] = "audio_respond"
    /\ req[t].ep = "toggle"
    /\ loc[t].phase = "read"
    /\ LET r == loc[t].result
       IN  loc' = [loc EXCEPT ![t] =
                      [NoLocals EXCEPT !.op = "set", !.phase = "write", !.current = r.val,
                                       !.setTo = IF r.val = None THEN TRUE ELSE Invert(r.val.b)]]
    /\ pc' = [pc EXCEPT ![t] = "gc_enter"]
    /\ UNCHANGED <<cfg, muteFlag, comDepth, comMode, req, child, resp, eff, chain, fnIn, fnOut>>

\* audio_mute_toggle, lines 302-304: after the read, abort or call the write
ToggleInvert(t) ==
    /\ pc[t] = "audio_respond"
    /\ req[t].ep = "toggle"
    /\ loc[t].phase = "read"
    /\ LET r == loc[t].result
       IN  IF r.val = None
           THEN /\ resp' = [resp EXCEPT ![t] =
                       Jsonify(500, "error", "TOGGLE_MUTE", None,
                               "Failed to read the current mute state.", r.msg)]
                /\ pc' = [pc EXCEPT ![t] = "done"]
                /\ loc' = loc
           ELSE /\ loc' = [loc EXCEPT ![t] =
                       [NoLocals EXCEPT !.op = "set", !.phase = "write", !.current = r.val,
                                        !.setTo = Invert(r.val.b)]]
                /\ pc' = [pc EXCEPT ![t] = "gc_enter"]
                /\ resp' = resp
    /\ UNCHANGED <<cfg, muteFlag, comDepth, comMode, req, child, eff, chain, fnIn, fnOut>>

\* the last two lines of each audio view function
AudioRespond(t) ==
    /\ pc[t] = "audio_respond"
    /\ ~(req[t].ep = "toggle" /\ loc[t].phase = "read")
    /\ LET r == loc[t].result
           action == AudioAction(req[t].ep)
       IN  resp' = [resp EXCEPT ![t] =
               CASE req[t].ep = "mute" ->
                      IF r.val.b
                      THEN Jsonify(200, "success", action, PyBool(TRUE), "System audio muted.", r.msg)
                      ELSE Jsonify(500, "error", action, None, "Failed to mute system audio.", r.msg)
                 [] req[t].ep = "unmute" ->
                      IF r.val.b
                      THEN Jsonify(200, "success", action, PyBool(FALSE), "System audio unmuted.", r.msg)
                      ELSE Jsonify(500, "error", action, None, "Failed to unmute system audio.", r.msg)
                 [] req[t].ep = "toggle" ->
                      IF r.val.b
                      THEN Jsonify(200, "success", action, PyBool(loc[t].setTo),
                                   "System audio mute toggled.", r.msg)
                      ELSE Jsonify(500, "error", action, None, "Failed to toggle system audio mute.", r.msg)
                 [] req[t].ep = "status" ->
                      IF r.val /= None
                      THEN Jsonify(200, "success", action, r.val, "Audio status read.", r.msg)
                      ELSE Jsonify(500, "error", action, None, "Failed to read audio status.", r.msg)]
    /\ pc' = [pc EXCEPT ![t] = "done"]
    /\ UNCHANGED <<cfg, muteFlag, comDepth, comMode, req, loc, child, eff, chain, fnIn, fnOut>>

\* another program, or the user, changes the endpoint's mute flag
ExternalWrite ==
    /\ muteFlag' = ~muteFlag
    /\ chain' = NoChain
    /\ UNCHANGED <<cfg, comDepth, comMode, pc, req, loc, child, resp, eff, fnIn, fnOut>>

\* ------------------------------------------------------ the specifications
ExitCodes == {0, 1}
ChildOuts == {<<>>, <<"o">>}
ChildErrs == {<<>>, <<"e">>}

Init ==
    /\ \E c \in Configs, m \in BOOLEAN, amb \in {"none", "STA", "MTA"} : Quiet(c, m, amb)
    /\ fnIn = None
    /\ fnOut = None

\* one worker thread of the server, request after request
Worker == 1

Next ==
    \/ Receive(Worker)
    \/ Guard(Worker)
    \/ MonitorPower(Worker)
    \/ MonitorBrightness(Worker)
    \/ RcSpawn(Worker)
    \/ RcTick(Worker)
    \/ RcExit(Worker, ExitCodes, ChildOuts, ChildErrs)
    \/ RcCommunicateError(Worker)
    \/ RcTimeout(Worker)
    \/ RcKill(Worker)
    \/ RcDrain(Worker)
    \/ MonitorRespond(Worker)
    \/ Unhandled(Worker)
    \/ Placeholder(Worker)
    \/ AudioEntry(Worker)
    \/ GcCoInit(Worker)
    \/ GcSpeakers(Worker)
    \/ GcActivate(Worker)
    \/ GcFinally(Worker)
    \/ SetSystemMute(Worker)
    \/ GetSystemMuteStatus(Worker)
    \/ ToggleInvert(Worker)
    \/ AudioRespond(Worker)
    \/ Finish(Worker)
    \/ ExternalWrite

Spec == Init /\ [][Next]_vars

\* run_command on its own: one call, entered with an argument list a builder
\* produced, and the child's output drawn from all short strings
ExecConfigs == {c \in BuilderConfigs : c.exe.found \/ c.exe.onPath}
ExecCodes == {0, 1, 3}
ExecOuts == SeqsUpTo({" ", "o"}, MaxOut)
ExecErrs == SeqsUpTo({" ", "e"}, MaxOut)

InitExec ==
    /\ cfg \in ExecConfigs
    /\ muteFlag = FALSE
    /\ comMode = [t \in Threads |-> "none"]
    /\ comDepth = [t \in Threads |-> 0]
    /\ pc = [t \in Threads |-> IF t = Worker THEN "rc_spawn" ELSE "idle"]
    /\ req = [t \in Threads |-> None]
    /\ \E m \in 1..MaxMonitor, lv \in {0, 100} :
          loc = [t \in Threads |->
                    IF t = Worker
                    THEN [NoLocals EXCEPT !.cmd =
                             IF lv = 0
                             THEN get_twinkle_power_command_parts(PyInt(m), "0xD6:1").parts
                             ELSE get_twinkle_brightness_command_parts(PyInt(m), PyInt(lv)).parts]
                    ELSE NoLocals]
    /\ child = [t \in Threads |-> NoChild]
    /\ resp = [t \in Threads |-> None]
    /\ eff = [t \in Threads |-> NoEffects]
    /\ chain = NoChain
    /\ fnIn = None
    /\ fnOut = None

NextExec ==
    \/ RcSpawn(Worker)
    \/ RcTick(Worker)
    \/ RcExit(Worker, ExecCodes, ExecOuts, ExecErrs)
    \/ RcCommunicateError(Worker)
    \/ RcTimeout(Worker)
    \/ RcKill(Worker)
    \/ RcDrain(Worker)

SpecExec == InitExec /\ [][NextExec]_vars

\* the server's worker threads, each handling one mute/toggle request that
\* passed the guard, with nothing else writing the flag; fnIn keeps the flag
\* the threads started from
ConcConfigs ==
    {c \in Configs : /\ ~c.auth.enabled /\ c.audio.pycaw
                     /\ c.exe = [path |-> InstalledExe, found |-> TRUE, onPath |-> FALSE]}
ToggleRequest == [ep |-> "toggle", hdr |-> None, num |-> None, level |-> None]

InitConc ==
    /\ \E c \in ConcConfigs, m \in BOOLEAN, amb \in {"none", "STA"} :
          /\ cfg = c
          /\ muteFlag = m
          /\ comMode = [t \in Threads |-> amb]
          /\ comDepth = [t \in Threads |-> IF amb = "none" THEN 0 ELSE 1]
          /\ fnIn = [fn |-> "toggle", sel |-> None, level |-> None, start |-> PyBool(m)]
    /\ pc = [t \in Threads |-> "audio"]
    /\ req = [t \in Threads |-> ToggleRequest]
    /\ loc = [t \in Threads |-> NoLocals]
    /\ child = [t \in Threads |-> NoChild]
    /\ resp = [t \in Threads |-> None]
    /\ eff = [t \in Threads |-> [NoEffects EXCEPT !.handler = TRUE]]
    /\ chain = NoChain
    /\ fnOut = None

NextConc ==
    \E t \in Threads :
        \/ AudioEntry(t)
        \/ GcCoInit(t)
        \/ GcSpeakers(t)
        \/ GcActivate(t)
        \/ GcFinally(t)
        \/ GetSystemMuteStatus(t)
        \/ SetSystemMute(t)
        \/ ToggleInvert(t)
        \/ AudioRespond(t)

SpecConc == InitConc /\ [][NextConc]_vars

\* ================================================================ properties
Handled(t) == pc[t] \notin {"idle", "guard"}
Rejected(t, code) == resp[t] /= None /\ resp[t].code = code /\ ~eff[t].handler

\* C1 as stated: with auth disabled the view function always runs; with auth
\* enabled an absent header gives 401, a present header that differs from the
\* secret (the empty one included) gives 403, and the equal key passes.
C1_AuthOutcomeAsStated ==
    \A t \in Threads : Handled(t) =>
        LET h == req[t].hdr
        IN  IF ~cfg.auth.enabled THEN eff[t].handler
            ELSE IF h = None THEN Rejected(t, 401)
            ELSE IF h.s /= cfg.auth.key THEN Rejected(t, 403)
            ELSE eff[t].handler

\* C1 amended: with auth disabled the view function always runs; with auth
\* enabled an absent or empty header gives 401, a non-empty header that
\* differs from the secret gives 403, and only a non-empty header equal to
\* the secret reaches the view function.
C1_AuthOutcome ==
    \A t \in Threads : Handled(t) =>
        LET h == req[t].hdr
        IN  IF ~cfg.auth.enabled THEN eff[t].handler
            ELSE IF h = None \/ h.s = "" THEN Rejected(t, 401)
            ELSE IF h.s /= cfg.auth.key THEN Rejected(t, 403)
            ELSE eff[t].handler /\ (resp[t] /= None => resp[t].code \notin {401, 403})

C1_Witness ==
    \E t \in Threads :
        /\ Handled(t) /\ cfg.auth.enabled /\ cfg.auth.key = "k1"
        /\ req[t].hdr = Text("") /\ Rejected(t, 401)

\* C2: a request the guard rejects (401 or 403) has built no command, spawned
\* no child, initialized no audio session and neither read nor written the
\* mute flag; each of these steps occurs only in a request that passed the
\* auth check.
Acted(t) ==
    \/ eff[t].builds > 0 \/ eff[t].spawns > 0 \/ eff[t].inits > 0
    \/ eff[t].reads > 0 \/ eff[t].writes > 0
    \/ child[t].state /= "none" \/ loc[t] /= NoLocals

KeyAccepted(h) == ~cfg.auth.enabled \/ (h /= None /\ h.s = cfg.auth.key)

C2_AuthBeforeEffects ==
    \A t \in Threads :
        /\ (resp[t] /= None /\ resp[t].code \in {401, 403}) => ~Acted(t)
        /\ Acted(t) => (eff[t].handler /\ KeyAccepted(req[t].hdr))
        /\ pc[t] \notin {"idle", "guard", "done"} => eff[t].handler

C2_Witness ==
    \E t \in Threads :
        /\ pc[t] = "done" /\ req[t].ep = "toggle" /\ resp[t].code = 403 /\ ~Acted(t)

\* C3: with the executable resolvable, for every integer level in 0..100 a
\* positive-integer selector yields the specific-monitor list, selector 0 or
\* a case variant of "all" yields the broadcast list; a level outside 0..100,
\* a negative selector or an unparseable selector that is not "all" yields an
\* error and no list; the result is exactly one of list and error.
LevelValid(lv) == lv.ty = "int" /\ lv.i \in 0..100
IsAllLiteral(sel) == sel.ty = "str" /\ Len(sel.cs) = 3 /\ Lower(sel.cs) = <<"a", "l", "l">>

C3_BrightnessBuilder ==
    (fnIn /= None /\ fnIn.fn = "brightness" /\ fnOut.bright /= None /\ ExeResolvable) =>
        LET r == fnOut.bright
            n == PyIntOf(fnIn.sel)
            lv == fnIn.level
            broadcast == (n.ok /\ n.v = 0) \/ (~n.ok /\ IsAllLiteral(fnIn.sel))
            specific == n.ok /\ n.v > 0
        IN  /\ (r.parts = None) /= (r.error = None)
            /\ (LevelValid(lv) /\ specific) =>
                  r.parts = PyList(<<cfg.exe.path, "--MonitorNum=" \o IntToStr(n.v),
                                     "--Set=" \o IntToStr(lv.i)>>)
            /\ (LevelValid(lv) /\ broadcast) =>
                  r.parts = PyList(<<cfg.exe.path, "--AllMonitors", "--Set=" \o IntToStr(lv.i)>>)
            /\ (~LevelValid(lv) \/ ~(specific \/ broadcast)) =>
                  (r.parts = None /\ Truthy(r.error))
            /\ (fnIn.sel = PyStr(<<"+", "1", "1">>) /\ lv = PyInt(50)) =>
                  r.parts = PyList(<<cfg.exe.path, "--MonitorNum=11", "--Set=50">>)
            /\ (fnIn.sel = PyStr(<<"a", "l">>) \/ fnIn.sel = PyStr(<<"-", "1">>)) => r.parts = None

C3_Witness ==
    /\ fnIn /= None /\ fnIn.fn = "brightness"
    /\ fnIn.sel = PyStr(<<"A", "l", "L">>) /\ fnIn.level = PyInt(100)
    /\ fnOut.bright = BuilderResult(PyList(<<DefaultExe, "--AllMonitors", "--Set=100">>), None)

\* C4: with the executable resolvable, for every positive integer m the lists
\* built for power-on and power-off of monitor m are equal except for the
\* power-state code (0xD6:1 / 0xD6:5); a selector that is zero, negative or
\* not an integer yields the InvalidTarget error and no list.
C4_PowerBuilder ==
    (fnIn /= None /\ fnIn.fn = "power" /\ ExeResolvable) =>
        LET m == fnIn.sel
            positive == m.ty = "int" /\ m.i > 0
            refused(r) == r /= None => (r.parts = None /\ r.error = Text(PositiveIntMessage))
        IN  /\ (positive /\ fnOut.on /= None /\ fnOut.off /= None) =>
                  /\ fnOut.on.error = None /\ fnOut.off.error = None
                  /\ Len(fnOut.on.parts.l) = 3 /\ Len(fnOut.off.parts.l) = 3
                  /\ \A i \in 1..2 : fnOut.on.parts.l[i] = fnOut.off.parts.l[i]
                  /\ fnOut.on.parts.l[2] = "--MonitorNum=" \o IntToStr(m.i)
                  /\ fnOut.on.parts.l[3] = "--VCP=0xD6:1"
                  /\ fnOut.off.parts.l[3] = "--VCP=0xD6:5"
            /\ ~positive => (refused(fnOut.on) /\ refused(fnOut.off))

C4_Witness ==
    /\ fnIn /= None /\ fnIn.fn = "power" /\ fnIn.sel = PyInt(2)
    /\ fnOut.on = BuilderResult(PyList(<<DefaultExe, "--MonitorNum=2", "--VCP=0xD6:1">>), None)
    /\ fnOut.off = BuilderResult(PyList(<<DefaultExe, "--MonitorNum=2", "--VCP=0xD6:5">>), None)

\* C5 as stated: for a monitor power or brightness request that passed auth,
\* the status is 400 exactly when the failure is a parameter validation
\* error, 500 when the executable is not found (by the builder or at
\* execution time), on timeout, nonzero exit or unexpected error, and 200
\* exactly when the child ran and exited with code zero.
ParamsInvalid(r) ==
    IF r.ep = "brightness"
    THEN LET n == PyIntOf(r.num)
         IN  \/ ~LevelValid(r.level)
             \/ (n.ok /\ n.v < 0)
             \/ (~n.ok /\ ~IsAllLiteral(r.num))
    ELSE ~(r.num.ty = "int" /\ r.num.i > 0)

C5_StatusMapping ==
    \A t \in Threads :
        (pc[t] = "done" /\ req[t].ep \in MonitorEndpoints /\ eff[t].handler) =>
            LET code == resp[t].code
                validationError == ExeResolvable /\ ParamsInvalid(req[t])
                ranToZero == child[t].state = "exited" /\ child[t].code = 0
            IN  /\ code \in {200, 400, 500}
                /\ (code = 400) <=> validationError
                /\ (code = 200) <=> ranToZero

\* C6 as stated: run_command always returns a (succeeded, message) pair and
\* never lets an exception reach the view function, the exceptions of the
\* kill and the drain after a timeout included.
C6_ExecutorTotal ==
    \A t \in Threads :
        /\ pc[t] /= "unhandled"
        /\ pc[t] = "respond" => (loc[t].result /= None /\ loc[t].result.val.ty = "bool")

\* C7 as stated: when the timeout expired with the child still running,
\* run_command ends with the child no longer running and with the Timeout
\* failure as its result.
C7_TimeoutProtocol ==
    \A t \in Threads :
        (child[t].elapsed = Timeout /\ pc[t] \notin {"rc_wait", "rc_kill", "rc_drain"}) =>
            /\ child[t].state = "killed"
            /\ loc[t].result = Result(PyBool(FALSE), Text(TimeoutMessage))

\* C8: after a normal exit the result is success iff the exit code is zero;
\* the success message is the trimmed stdout or the generic phrase; the
\* failure message is built from trimmed stderr, else trimmed stdout, else
\* the exit code; a missing executable has its own result, different from
\* every nonzero-exit result.
Trimmed(cs) == Join(Strip(cs))

C8_Classification ==
    \A t \in Threads : pc[t] = "respond" =>
        LET r == loc[t].result
            c == child[t]
        IN  /\ c.state = "exited" =>
                /\ r.val = PyBool(c.code = 0)
                /\ c.code = 0 =>
                      r.msg.s = (IF Trimmed(c.out) = "" THEN GenericSuccess ELSE Trimmed(c.out))
                /\ c.code /= 0 =>
                      r.msg.s = "Command error: "
                                \o (IF Trimmed(c.err) /= "" THEN Trimmed(c.err)
                                    ELSE IF Trimmed(c.out) /= "" THEN Trimmed(c.out)
                                    ELSE UnknownError(c.code))
                /\ (c.code = 3 /\ c.out = <<" ">> /\ c.err = <<>>) =>
                      r.msg.s = "Command error: Unknown error (return code: 3)"
                /\ (c.code = 1 /\ c.out = <<"o", " ">> /\ c.err = <<" ">>) =>
                      r.msg.s = "Command error: o"
            /\ (c.state = "none" /\ r.msg.s = NotFoundMessage(loc[t].cmd)) =>
                /\ r.val = PyBool(FALSE)
                /\ \A code \in ExecCodes, out \in ExecOuts, err \in ExecErrs :
                      Classify(code, out, err).msg /= r.msg

C8_Witness ==
    \E t \in Threads :
        /\ pc[t] = "respond" /\ child[t].state = "exited" /\ child[t].code = 1
        /\ child[t].err = <<" ">> /\ child[t].out = <<" ", "o">>
        /\ loc[t].result = Result(PyBool(FALSE), Text("Command error: o"))

\* C9 as stated: in every set / get call the steps come in the order
\* session-init, handle acquisition, mute-flag read or write, session
\* release: the flag is read or written while the session this call
\* initialized is still held, never after its release.
Rank(step) ==
    CASE step = "init" -> 1 [] step = "acquire" -> 2 [] step = "op" -> 3 [] step = "release" -> 4

C9_LifecycleOrder ==
    \A t \in Threads :
        \A i \in 1..Len(loc[t].life), j \in 1..Len(loc[t].life) :
            i < j => Rank(loc[t].life[i]) < Rank(loc[t].life[j])

\* C10: two successive toggle requests that both succeed, with no other
\* write of the mute flag in between, leave the flag at its initial value
\* (and one leaves it inverted); a successful toggle reports audio_muted
\* equal to the value it wrote, the negation of the value it read.
C10_ToggleInvolution ==
    /\ chain.stage = "w1" => muteFlag = ~chain.start
    /\ chain.stage = "w2" => muteFlag = chain.start
    /\ \A t \in Threads :
          (pc[t] = "done" /\ req[t].ep = "toggle" /\ resp[t].code = 200) =>
              /\ eff[t].readVal /= None /\ eff[t].wroteVal /= None
              /\ resp[t].audio_muted = eff[t].wroteVal
              /\ eff[t].wroteVal.b = ~eff[t].readVal.b

C10_Witness ==
    /\ chain.stage = "w2"
    /\ \E t \in Threads : pc[t] = "done" /\ req[t].ep = "toggle" /\ resp[t].code = 200

\* C11: a toggle request whose read of the mute state failed (the handle was
\* not acquired, or GetMute raised) answers 500 with the read's error as its
\* details, never enters its write phase, writes nothing, and no step of the
\* request changes the mute flag; the write phase is entered only with the
\* value that was read.
ReadFailed(t) ==
    /\ pc[t] \in {"audio_respond", "done"}
    /\ req[t].ep = "toggle"
    /\ loc[t].phase = "read"
    /\ loc[t].result /= None
    /\ loc[t].result.val = None

C11_NoWriteAfterFailedRead ==
    /\ [](\A t \in Threads :
            /\ ReadFailed(t) =>
                  /\ eff[t].writes = 0 /\ eff[t].wroteVal = None
                  /\ pc[t] = "done" =>
                        /\ resp[t].code = 500 /\ resp[t].status = "error"
                        /\ resp[t].audio_muted = None
                        /\ Truthy(resp[t].details)
                        /\ resp[t].details = loc[t].result.msg
            /\ (pc[t] /= "idle" /\ loc[t].phase = "write") =>
                  /\ eff[t].reads = 1 /\ eff[t].readVal /= None
                  /\ loc[t].current = eff[t].readVal)
    /\ [][\A t \in Threads :
            (ReadFailed(t) /\ pc'[t] /= pc[t]) => muteFlag' = muteFlag]_vars

C11_Witness ==
    \E t \in Threads :
        /\ ReadFailed(t) /\ pc[t] = "done"
        /\ resp[t].code = 500
        /\ resp[t].details = Text("Error getting system mute status: com_error")
        /\ eff[t].writes = 0

\* C12: when pycaw failed to load, every audio endpoint that passed the guard
\* answers 503 with the unavailable message; on that path CoInitializeEx is
\* never called, the handle acquisition is never entered, the mute flag is
\* neither read nor written, and no step of the request changes the flag.
AudioDown(t) ==
    /\ pc[t] \notin {"idle", "guard"}
    /\ req[t].ep \in AudioEndpoints
    /\ eff[t].handler
    /\ ~cfg.audio.pycaw

C12_AudioUnavailable ==
    /\ [](\A t \in Threads : AudioDown(t) =>
            /\ pc[t] \in {"audio", "done"}
            /\ eff[t].inits = 0 /\ eff[t].reads = 0 /\ eff[t].writes = 0
            /\ loc[t] = NoLocals
            /\ pc[t] = "done" =>
                  resp[t] = Jsonify(503, "error", AudioAction(req[t].ep), None,
                                    UnavailableMessage, None))
    /\ [][\A t \in Threads :
            (AudioDown(t) /\ pc'[t] /= pc[t]) =>
                (muteFlag' = muteFlag /\ comDepth' = comDepth)]_vars

C12_Witness ==
    /\ ~cfg.audio.pycaw /\ cfg.audio.pythoncom
    /\ \E t \in Threads :
          /\ pc[t] = "done" /\ req[t].ep = "status" /\ eff[t].handler
          /\ resp[t].code = 503 /\ resp[t].message = UnavailableMessage
          /\ eff[t].inits = 0 /\ eff[t].reads = 0

\* C13 as stated: every response of every endpoint on every path, the guard's
\* rejections and the status placeholder included, is a JSON envelope whose
\* status field is "success" or "error", and the status is "success" exactly
\* when the HTTP status code is 200.
C13_UniformEnvelope ==
    \A t \in Threads : resp[t] /= None =>
        /\ resp[t].json
        /\ resp[t].status \in {"success", "error"}
        /\ (resp[t].status = "success") <=> (resp[t].code = 200)

\* C14 as stated: every endpoint is idempotent, mute/toggle included: after
\* two successive successful requests of one kind, with no other write in
\* between, the mute flag is what one such request left. For toggle: after
\* the second toggle the flag is still the inverse of the flag the first
\* toggle read.
C14_AllIdempotent ==
    /\ chain.stage = "w2" => muteFlag = ~chain.start
    /\ \A t \in Threads :
          (pc[t] = "done" /\ req[t].ep \in {"mute", "unmute"} /\ resp[t].code = 200) =>
              eff[t].wroteVal = PyBool(req[t].ep = "mute")

\* C14 amended: every endpoint except mute/toggle is idempotent. What a
\* mute, unmute, on, off or brightness request commands is fixed by the
\* request alone, not by the state it finds: a successful mute writes TRUE
\* and a successful unmute writes FALSE exactly once, the child's argument
\* list is the builder's list for the request's own target and absolute
\* value, status and the monitor endpoints never change the flag. So the
\* same successful request repeated leaves the controlled state as one did.
\* mute/toggle is not idempotent: with no other write in between, one
\* successful toggle leaves the flag inverted and two leave it as it was.
OwnStep(t) == pc'[t] /= pc[t] \/ child'[t] /= child[t]

C14_IdempotentExceptToggle ==
    /\ [](/\ chain.stage = "w1" => muteFlag = ~chain.start
          /\ chain.stage = "w2" => muteFlag = chain.start
          /\ \A t \in Threads : pc[t] \notin {"idle", "guard"} =>
                /\ (pc[t] = "done" /\ req[t].ep \in {"mute", "unmute"} /\ resp[t].code = 200) =>
                      /\ eff[t].writes = 1 /\ eff[t].reads = 0
                      /\ eff[t].wroteVal = PyBool(req[t].ep = "mute")
                      /\ resp[t].audio_muted = PyBool(req[t].ep = "mute")
                /\ req[t].ep \in {"status", "placeholder"} \cup MonitorEndpoints =>
                      eff[t].writes = 0
                /\ (req[t].ep \in {"on", "off"} /\ child[t].state /= "none") =>
                      loc[t].cmd = PyList(<<cfg.exe.path,
                                            "--MonitorNum=" \o IntToStr(req[t].num.i),
                                            IF req[t].ep = "on" THEN "--VCP=0xD6:1"
                                                                ELSE "--VCP=0xD6:5">>)
                /\ (req[t].ep = "brightness" /\ child[t].state /= "none") =>
                      /\ Len(loc[t].cmd.l) = 3
                      /\ loc[t].cmd = get_twinkle_brightness_command_parts(
                                          req[t].num, req[t].level).parts
                      /\ loc[t].cmd.l[3] = "--Set=" \o IntToStr(req[t].level.i))
    /\ [][\A t \in Threads : (pc[t] \notin {"idle", "guard"} /\ OwnStep(t)) =>
            /\ cfg' = cfg
            /\ req[t].ep \in {"mute", "unmute"} =>
                  (muteFlag' = muteFlag \/ muteFlag' = (req[t].ep = "mute"))
            /\ req[t].ep \in {"status", "placeholder"} \cup MonitorEndpoints =>
                  muteFlag' = muteFlag]_vars

C14_Witness ==
    /\ muteFlag
    /\ \E t \in Threads :
          /\ pc[t] = "done" /\ req[t].ep = "mute" /\ resp[t].code = 200
          /\ eff[t].writes = 1 /\ eff[t].wroteVal = PyBool(TRUE)

\* C15 as stated: a handle acquisition tears the session down only when this
\* call performed the initialization: a call that found the thread's session
\* already initialized by an ambient caller holds no initialization of its
\* own and performs no teardown; between calls the count is the ambient one.
InCall(t) == pc[t] \in {"gc_speakers", "gc_activate", "gc_finally"}

C15_SessionBalanceAsStated ==
    \A t \in Threads :
        /\ (InCall(t) /\ loc[t].comHere) => comDepth[t] = 1
        /\ ~InCall(t) => comDepth[t] \in {0, 1}

\* C15 amended: the call tears the session down exactly when its own
\* CoInitializeEx call succeeded, with S_OK or, on a thread an ambient caller
\* had already initialized in the same mode, with S_FALSE (that call counts
\* too and is released again); a call that met a session of the other mode
\* (RPC_E_CHANGED_MODE), whose initialization raised, or that ran without
\* pythoncom performs no teardown. The count changes only on entry (+1 iff
\* com_initialized_here) and in the finally clause (-1 iff
\* com_initialized_here), every exit of the acquisition passes the finally
\* clause or left the flag unset, so between calls the count is what it was.
C15_SessionBalance ==
    /\ [](\A t \in Threads :
            /\ ~InCall(t) =>
                  /\ comDepth[t] \in {0, 1}
                  /\ (comDepth[t] = 0) <=> (comMode[t] = "none")
            /\ (InCall(t) /\ loc[t].comHere) =>
                  /\ comDepth[t] \in {1, 2} /\ comMode[t] = "STA"
                  /\ cfg.audio.pythoncom /\ eff[t].inits > 0
            /\ (InCall(t) /\ ~loc[t].comHere) =>
                  /\ comDepth[t] \in {0, 1}
                  /\ (comDepth[t] = 0) <=> (comMode[t] = "none"))
    /\ [][\A t \in Threads :
            /\ (pc[t] = "gc_enter" /\ pc'[t] /= pc[t]) =>
                  /\ comDepth'[t] = comDepth[t] + (IF loc'[t].comHere THEN 1 ELSE 0)
                  /\ loc'[t].comHere =>
                        /\ eff'[t].inits = eff[t].inits + 1
                        /\ pc'[t] = "gc_speakers"
                        /\ comMode'[t] = "STA"
                        /\ comMode[t] /= "MTA"
                  /\ pc'[t] \in {"gc_speakers", "audio_op"}
            /\ (pc[t] = "gc_finally" /\ pc'[t] /= pc[t]) =>
                  /\ comDepth'[t] = comDepth[t] - (IF loc[t].comHere THEN 1 ELSE 0)
                  /\ pc'[t] = "audio_op"
            /\ pc[t] \notin {"gc_enter", "gc_finally"} => comDepth'[t] = comDepth[t]
            /\ (InCall(t) /\ pc'[t] /= pc[t]) =>
                  /\ loc'[t].comHere = loc[t].comHere
                  /\ pc[t] /= "gc_finally" => pc'[t] \in {"gc_activate", "gc_finally"}]_vars

C15_Witness ==
    \E t \in Threads :
        /\ pc[t] = "audio_op" /\ loc[t].comHere
        /\ loc[t].life = <<"init", "release">>
        /\ Truthy(loc[t].error)
        /\ comDepth[t] = 1 /\ comMode[t] = "STA"

\* C16: when the executable is at no configured or well-known path and not on
\* the search path, the power builder and the brightness builder return the
\* executable-not-found error and no argument list for every input, valid
\* or not, and never the target or level validation errors.
ValidationMessages ==
    {PositiveIntMessage, LevelMessage, NegativeMessage}
    \cup {InvalidSelectorMessage(x) : x \in PowerInputs}

C16_ResolutionFirst ==
    (fnIn /= None /\ ~ExeResolvable) =>
        \A r \in {fnOut.on, fnOut.off, fnOut.bright} :
            r /= None =>
                /\ r.parts = None
                /\ r.error = Text(ExeNotFoundMessage)
                /\ r.error.s \notin ValidationMessages

C16_Witness ==
    /\ fnIn /= None /\ ~ExeResolvable
    /\ fnIn.fn = "brightness" /\ fnIn.sel = PyStr(<<"-", "1">>) /\ fnIn.level = PyInt(101)
    /\ fnOut.bright = BuilderResult(None, Text(ExeNotFoundMessage))

\* C17 as stated: when every worker thread has handled one toggle request
\* concurrently with the others, all of them succeeded and nothing else wrote
\* the mute flag, the flag equals the initial flag inverted once per thread:
\* unchanged for an even number of toggles, inverted for an odd number.
InvertedTimes(flag, n) == IF n % 2 = 0 THEN flag ELSE ~flag

AllTogglesSucceeded ==
    \A t \in Threads : pc[t] = "done" /\ req[t].ep = "toggle" /\ resp[t].code = 200

C17_ConcurrentToggles ==
    (fnIn /= None /\ fnIn.fn = "toggle" /\ AllTogglesSucceeded) =>
        muteFlag = InvertedTimes(fnIn.start.b, NumThreads)

\* C18: a monitor power or brightness request calls its builder once and
\* starts at most one child process, only with the argument list the builder
\* returned for it (never after a builder error), and once run_command has
\* started a child or produced a result the request never comes back to the
\* spawn; no other endpoint starts a child; a request reads the mute flag at
\* most once and writes it at most once.
BuiltFor(r) ==
    IF r.ep = "brightness" THEN get_twinkle_brightness_command_parts(r.num, r.level)
    ELSE get_twinkle_power_command_parts(r.num, PowerCode(r.ep))

C18_SingleAttempt ==
    /\ [](\A t \in Threads : pc[t] \notin {"idle", "guard"} =>
            /\ eff[t].builds <= 1 /\ eff[t].spawns <= 1
            /\ eff[t].reads <= 1 /\ eff[t].writes <= 1
            /\ (child[t].state /= "none") <=> (eff[t].spawns = 1)
            /\ eff[t].spawns = 1 =>
                  /\ req[t].ep \in MonitorEndpoints
                  /\ eff[t].builds = 1
                  /\ BuiltFor(req[t]).error = None
                  /\ loc[t].cmd = BuiltFor(req[t]).parts
            /\ (pc[t] = "done" /\ resp[t].code = 400) => eff[t].spawns = 0
            /\ (req[t].ep = "toggle" /\ eff[t].writes = 1) => eff[t].reads = 1)
    /\ [][\A t \in Threads :
            /\ (eff[t].spawns > 0 \/ loc[t].result /= None) => pc'[t] /= "rc_spawn"
            /\ child[t].state \in {"exited", "killed"} => child'[t].state /= "running"
            /\ eff[t].reads > 0 => eff'[t].reads <= eff[t].reads
            /\ eff[t].writes > 0 => eff'[t].writes <= eff[t].writes]_vars

C18_Witness ==
    \E t \in Threads :
        /\ pc[t] = "done" /\ req[t].ep = "off" /\ resp[t].code = 500
        /\ child[t].state = "exited" /\ child[t].code = 1
        /\ eff[t].spawns = 1 /\ eff[t].builds = 1

\* C19 as stated: every child process started for a monitor power or
\* brightness command is created with the CREATE_NO_WINDOW creation flag.
C19_NoWindowFlag ==
    \A t \in Threads :
        (child[t].state /= "none" /\ req[t] /= None /\ req[t].ep \in MonitorEndpoints) =>
            child[t].flags = CREATE_NO_WINDOW
====
